---- MODULE Spec2Model ----
(***************************************************************************)
(* Model of app.py, the Streamlit chat client.                             *)
(*                                                                         *)
(* Streamlit executes the script top to bottom once per widget event       *)
(* (a "run").  The model follows one run at a time with a program counter: *)
(*   idle -> wait_health_top -> sidebar -> [wait_health_btn | wait_credits *)
(*   | wait_eligibility | wait_clear] -> chat_input -> [wait_chat]         *)
(*   -> footer -> [wait_history] -> idle                                   *)
(* The wait_* positions are the blocking `requests` calls: the request is  *)
(* in flight.  When the reply (or a transport exception) arrives the call  *)
(* returns (a got_ position) and the handler goes on.  st.rerun() abandons *)
(* the run and starts a new one without a widget event; an unhandled       *)
(* Python exception ends the run.                                          *)
(*                                                                         *)
(* Costs are integers (units of the smallest cost the server charges);     *)
(* float rounding is not modelled.  Message timestamps are wall-clock      *)
(* strings that no handler reads back and are left out of the records.     *)
(***************************************************************************)
EXTENDS Integers, Sequences, FiniteSets, TLC

VARIABLES
    session_id,     \* st.session_state.session_id   (None or a uuid)
    chat_history,   \* st.session_state.chat_history (list of messages)
    user_address,   \* st.session_state.user_address (wallet address text)
    total_cost,     \* st.session_state.total_cost
    message_count,  \* st.session_state.message_count
    pc,             \* position of the current script run
    event,          \* the widget event that triggered the current run
    req,            \* the HTTP request in flight (NoReq when none)
    resp,           \* the reply the blocked call has just returned with
    next_uuid,      \* uuid4() never repeats: the next unused identifier
    outcome,        \* what the last handler step showed / did
    download,       \* the file st.download_button offers in this run
    action,         \* history: the widget the user operated (kept across st.rerun())
    issued,         \* history: requests sent so far to that widget's endpoint
    sends,          \* history: chat requests issued since start/clear
    ok_sends,       \* history: sends answered with `response` since start/clear
    cost_sum        \* history: sum of the numeric `cost` values of those replies

vars == <<session_id, chat_history, user_address, total_cost, message_count,
          pc, event, req, resp, next_uuid, outcome, download,
          action, issued, sends, ok_sends, cost_sum>>

session == <<session_id, chat_history, total_cost, message_count>>

(***************************************************************************)
(* Bounds                                                                  *)
(***************************************************************************)
MaxLen      == 4    \* longest chat_history / server history explored
MaxSessions == 2    \* number of uuid4() draws explored
MaxCost     == 1    \* largest cost a chat reply carries

(***************************************************************************)
(* Values                                                                  *)
(***************************************************************************)
None == 0                               \* Python None for session_id
NoReq == [endpoint |-> "none"]
Addresses == {"", "0xABC"}              \* text of the wallet address box
Prompts == {"hello"}                    \* text typed in st.chat_input
Replies == {"hi"}                       \* text of the assistant's answer
\* the messages of a conversation: what the user typed, what the model answered
Message == [role : {"user"}, content : Prompts] \cup [role : {"assistant"}, content : Replies]
StatusCodes == {200, 204, 500}          \* HTTP status of a reply
CostVals == (0 - 1) .. MaxCost          \* numeric `cost` values of a reply

RECURSIVE SeqsUpTo(_, _)
SeqsUpTo(S, n) ==
    IF n = 0 THEN {<<>>}
    ELSE LET shorter == SeqsUpTo(S, n - 1)
         IN  shorter \cup {Append(s, x) : s \in {t \in shorter : Len(t) = n - 1}, x \in S}

Histories == SeqsUpTo(Message, MaxLen)  \* histories the server may report

EventKinds == {"none", "address", "health", "credits", "eligibility",
               "clear", "chat", "export"}

Event == [kind : EventKinds \ {"address", "chat"}, text : {""}]
         \cup [kind : {"address"}, text : Addresses]
         \cup [kind : {"chat"}, text : Prompts]
NoEvent == [kind |-> "none", text |-> ""]

(***************************************************************************)
(* What the server can answer.  A reply is a transport exception or an     *)
(* HTTP response with a status and a body; the body is what                *)
(* response.json() makes of it: a dict, the JSON value null, or not JSON   *)
(* at all (json() raises).                                                 *)
(***************************************************************************)
JsonDict(d) == [kind |-> "dict", d |-> d]
JsonNull == [kind |-> "null"]
NotJson == [kind |-> "invalid"]
Num(c) == [num |-> TRUE, v |-> c]       \* a `cost` that float() accepts
NotNum == [num |-> FALSE, v |-> 0]      \* a `cost` that float() rejects
ErrorDict(text) == JsonDict([error |-> text])

ChatBodies ==
    {JsonDict([response |-> r]) : r \in Replies}
    \cup {JsonDict([response |-> r, cost |-> c]) :
             r \in Replies, c \in {Num(v) : v \in CostVals} \cup {NotNum}}
    \cup {ErrorDict("Insufficient credits"), JsonNull, NotJson}
HistoryBodies ==
    {JsonDict([history |-> h]) : h \in Histories}
    \cup {ErrorDict("Session not found"), JsonNull, NotJson}
PlainBodies == {JsonDict([status |-> "OK"]), NotJson}
CreditsBodies == {JsonDict([credits |-> 1]), ErrorDict("Server error"), JsonNull, NotJson}
EligibilityBodies ==
    {JsonDict([canChat |-> b, cost |-> 1]) : b \in BOOLEAN}
    \cup {JsonDict([canChat |-> TRUE]), ErrorDict("Server error"), JsonNull, NotJson}

HttpReplies(bodies) ==
    {[exc |-> TRUE]} \cup [exc : {FALSE}, status : StatusCodes, body : bodies]
NoResp == [exc |-> FALSE]
NoDownload == [offered |-> FALSE]

BodiesFor(endpoint) ==
    CASE endpoint = "chat" -> ChatBodies
      [] endpoint = "history" -> HistoryBodies
      [] endpoint = "credits" -> CreditsBodies
      [] endpoint = "eligibility" -> EligibilityBodies
      [] OTHER -> PlainBodies

Is2xx(status) == status \in 200 .. 299

(***************************************************************************)
(* The API wrappers, as functions of the reply the call received.          *)
(***************************************************************************)
\* try: return response.json()  except: return {"error": text}
JsonOrError(reply, text) ==
    IF reply.exc \/ reply.body.kind = "invalid" THEN ErrorDict(text) ELSE reply.body

\* mutant: the except branch answers under the key `response`
send_chat_message_ErrorAsResponse(reply) ==
    IF reply.exc \/ reply.body.kind = "invalid"
    THEN JsonDict([response |-> "hi"])
    ELSE reply.body

send_chat_message(reply) == JsonOrError(reply, "Unable to send message")
get_chat_history(reply) == JsonOrError(reply, "Unable to fetch history")
get_credits(reply) == JsonOrError(reply, "Unable to fetch credits")
check_eligibility(reply) == JsonOrError(reply, "Unable to check eligibility")

\* return response.status_code == 200, False on an exception
clear_session(reply) == ~reply.exc /\ reply.status = 200

\* mutant: the status code is not looked at
check_health_IgnoresStatus(reply) ==
    IF reply.exc THEN [ok |-> FALSE, data |-> JsonNull]
    ELSE IF reply.body.kind = "invalid" THEN [ok |-> FALSE, data |-> JsonNull]
    ELSE [ok |-> TRUE, data |-> reply.body]

\* (status == 200, json if status == 200 else None); (False, None) on an exception
check_health(reply) ==
    IF reply.exc THEN [ok |-> FALSE, data |-> JsonNull]
    ELSE IF reply.status # 200 THEN [ok |-> FALSE, data |-> JsonNull]
    ELSE IF reply.body.kind = "invalid" THEN [ok |-> FALSE, data |-> JsonNull]
    ELSE [ok |-> TRUE, data |-> reply.body]

\* `key in value`: raises TypeError when value is None
Raises(value) == value.kind # "dict"
Has(key, value) == value.kind = "dict" /\ key \in DOMAIN value.d

(***************************************************************************)
(* Pieces of the handlers                                                  *)
(***************************************************************************)
UserMessage(prompt) == [role |-> "user", content |-> prompt]
AssistantMessage(text) == [role |-> "assistant", content |-> text]

\* mutant: a new uuid on every submission
EnsureSessionId_Always(sid, fresh) == fresh

\* if not st.session_state.session_id: session_id = str(uuid.uuid4())
EnsureSessionId(sid, fresh) == IF sid = None THEN fresh ELSE sid

\* if "cost" in response: total_cost += float(response["cost"])
AddCost(total, response) ==
    IF "cost" \in DOMAIN response.d THEN total + response.d.cost.v ELSE total
CostRaises(response) ==
    "cost" \in DOMAIN response.d /\ ~response.d.cost.num

\* mutant: only the server's extra entries are appended to the local ones
Reconcile_Merge(local, history_data) ==
    IF Has("history", history_data) /\ Len(history_data.d.history) > Len(local)
    THEN local \o SubSeq(history_data.d.history, Len(local) + 1,
                         Len(history_data.d.history))
    ELSE local

\* mutant: the server's history is taken whatever its length
Reconcile_Always(local, history_data) ==
    IF Has("history", history_data) THEN history_data.d.history ELSE local

\* mutant: a result without `history` empties the local messages
Reconcile_ClearOnError(local, history_data) ==
    IF ~Has("history", history_data) THEN <<>>
    ELSE IF Len(history_data.d.history) > Len(local) THEN history_data.d.history
    ELSE local

\* mutant: >= in place of >
Reconcile_AtLeast(local, history_data) ==
    IF Has("history", history_data) /\ Len(history_data.d.history) >= Len(local)
    THEN history_data.d.history
    ELSE local

\* if "history" in history_data and len(history) > len(chat_history): replace
Reconcile(local, history_data) ==
    IF Has("history", history_data) /\ Len(history_data.d.history) > Len(local)
    THEN history_data.d.history
    ELSE local

(***************************************************************************)
(* Initial state: lines 17-29                                              *)
(***************************************************************************)
Init ==
    /\ session_id = None
    /\ chat_history = <<>>
    /\ user_address = ""
    /\ total_cost = 0
    /\ message_count = 0
    /\ pc = "idle"
    /\ event = NoEvent
    /\ req = NoReq
    /\ resp = NoResp
    /\ next_uuid = 1
    /\ outcome = "none"
    /\ download = NoDownload
    /\ action = "none"
    /\ issued = 0
    /\ sends = 0
    /\ ok_sends = 0
    /\ cost_sum = 0

KeepSession == UNCHANGED <<session_id, chat_history, total_cost, message_count>>
KeepHistoryVars == UNCHANGED <<sends, ok_sends, cost_sum>>

\* the endpoint a widget's handler calls
OwnEndpoint(kind) ==
    IF kind \in {"health", "credits", "eligibility", "clear", "chat"} THEN kind ELSE "none"

\* the account of the user's action: one more request for `request`
Counted(kind, count, request) ==
    IF request.endpoint # "none" /\ request.endpoint = OwnEndpoint(kind)
    THEN count + 1 ELSE count
KeepAccount == UNCHANGED <<action, issued>>
\* the account is closed when the handlers are done (footer) or the run ends
CloseAccount == action' = "none" /\ issued' = 0

(***************************************************************************)
(* A run starts: the script issues the connection-status health check      *)
(* (line 105) before anything else.                                        *)
(***************************************************************************)
BeginRun(ev) ==
    /\ event' = ev
    /\ req' = [endpoint |-> "health"]
    /\ resp' = NoResp
    /\ pc' = "wait_health_top"
    /\ outcome' = "none"
    /\ download' = NoDownload
    /\ KeepSession
    /\ UNCHANGED <<user_address, next_uuid>>
    /\ KeepHistoryVars

\* a widget event arrives while the script is idle
UserEvent ==
    /\ pc = "idle"
    /\ \E ev \in Event :
        /\ ev.kind = "chat" =>
              /\ Len(chat_history) + 2 <= MaxLen
              /\ session_id # None \/ next_uuid <= MaxSessions
        /\ BeginRun(ev)
        /\ action' = ev.kind
        /\ issued' = Counted(ev.kind, 0, req')

\* st.rerun(): the script starts over with no widget event
Rerun ==
    /\ pc = "rerun"
    /\ BeginRun(NoEvent)
    /\ action' = action
    /\ issued' = Counted(action, issued, req')

(***************************************************************************)
(* The blocked requests.get / post / delete returns: with a response       *)
(* object or by raising.  No timeout is passed, so nothing else ends the   *)
(* wait.                                                                   *)
(***************************************************************************)
WaitPcs == {"wait_health_top", "wait_health", "wait_credits", "wait_eligibility",
            "wait_clear", "wait_chat", "wait_history"}

Got(p) ==
    CASE p = "wait_health_top" -> "got_health_top"
      [] p = "wait_health" -> "got_health"
      [] p = "wait_credits" -> "got_credits"
      [] p = "wait_eligibility" -> "got_eligibility"
      [] p = "wait_clear" -> "got_clear"
      [] p = "wait_chat" -> "got_chat"
      [] p = "wait_history" -> "got_history"

Receive ==
    /\ pc \in WaitPcs
    /\ \E reply \in HttpReplies(BodiesFor(req.endpoint)) : resp' = reply
    /\ pc' = Got(pc)
    /\ req' = NoReq
    /\ KeepSession
    /\ UNCHANGED <<user_address, event, next_uuid, outcome>>
    /\ KeepHistoryVars
    /\ KeepAccount
    /\ UNCHANGED download

\* lines 105-109: connection status
HealthTop ==
    /\ pc = "got_health_top"
    /\ outcome' = IF check_health(resp).ok THEN "connected" ELSE "disconnected"
    /\ pc' = "sidebar"
    /\ resp' = NoResp
    /\ KeepSession
    /\ UNCHANGED <<user_address, event, req, next_uuid>>
    /\ KeepHistoryVars
    /\ KeepAccount
    /\ UNCHANGED download

(***************************************************************************)
(* Sidebar, lines 113-181, up to the first blocking call.                  *)
(* Line 124 stores the text box value; then at most one button is down.    *)
(***************************************************************************)
AddressBox == IF event.kind = "address" THEN event.text ELSE user_address

\* mutant: Check Credits and Check Eligibility without `and user_address`
SidebarRequest_NoAddressGuard(address, sid) ==
    IF event.kind = "health" THEN [endpoint |-> "health"]
    ELSE IF event.kind = "credits"
        THEN [endpoint |-> "credits", userAddress |-> address]
    ELSE IF event.kind = "eligibility"
        THEN [endpoint |-> "eligibility", userAddress |-> address]
    ELSE IF event.kind = "clear" /\ sid # None
        THEN [endpoint |-> "clear", sessionId |-> sid]
    ELSE NoReq

\* mutant: Clear Chat History without its `and session_id` guard
SidebarRequest_NoSessionGuard(address, sid) ==
    IF event.kind = "health" THEN [endpoint |-> "health"]
    ELSE IF event.kind = "credits" /\ address # ""
        THEN [endpoint |-> "credits", userAddress |-> address]
    ELSE IF event.kind = "eligibility" /\ address # ""
        THEN [endpoint |-> "eligibility", userAddress |-> address]
    ELSE IF event.kind = "clear"
        THEN [endpoint |-> "clear", sessionId |-> sid]
    ELSE NoReq

\* the button that is down and whose `and` guard holds: the request it issues
SidebarRequest(address, sid) ==
    IF event.kind = "health" THEN [endpoint |-> "health"]
    ELSE IF event.kind = "credits" /\ address # ""
        THEN [endpoint |-> "credits", userAddress |-> address]
    ELSE IF event.kind = "eligibility" /\ address # ""
        THEN [endpoint |-> "eligibility", userAddress |-> address]
    ELSE IF event.kind = "clear" /\ sid # None
        THEN [endpoint |-> "clear", sessionId |-> sid]
    ELSE NoReq

WaitFor(request) ==
    IF request.endpoint = "none" THEN "chat_input" ELSE "wait_" \o request.endpoint

Sidebar ==
    /\ pc = "sidebar"
    /\ user_address' = AddressBox
    /\ req' = SidebarRequest(AddressBox, session_id)
    /\ pc' = WaitFor(req')
    /\ outcome' = "none"
    /\ KeepSession
    /\ UNCHANGED <<event, resp, next_uuid>>
    /\ action' = action
    /\ issued' = Counted(action, issued, req')
    /\ KeepHistoryVars
    /\ UNCHANGED download

\* mutant: after an error result the sidebar handler is entered again
Displayed_RetryOnError(shown) ==
    /\ outcome' = shown
    /\ pc' = IF shown = "exception" THEN "idle"
             ELSE IF shown \in {"not_responding", "credits_error", "eligibility_error"}
                  THEN "sidebar"
             ELSE "chat_input"
    /\ event' = IF shown = "exception" THEN NoEvent ELSE event
    /\ resp' = NoResp
    /\ KeepSession
    /\ UNCHANGED <<user_address, req, next_uuid>>
    /\ UNCHANGED download
    /\ IF shown = "exception" THEN action' = "none" /\ issued' = 0
       ELSE UNCHANGED <<action, issued>>
    /\ UNCHANGED <<sends, ok_sends, cost_sum>>

\* a handler that only displays: the run goes on, or ends on a Python exception
Displayed(shown) ==
    /\ outcome' = shown
    /\ pc' = IF shown = "exception" THEN "idle" ELSE "chat_input"
    /\ event' = IF shown = "exception" THEN NoEvent ELSE event
    /\ resp' = NoResp
    /\ KeepSession
    /\ UNCHANGED <<user_address, req, next_uuid>>
    /\ IF shown = "exception" THEN CloseAccount ELSE KeepAccount
    /\ KeepHistoryVars
    /\ UNCHANGED download

\* lines 143-150: the Health Check button
HealthShown(health) == IF health.ok THEN "healthy" ELSE "not_responding"

HealthButton ==
    /\ pc = "got_health"
    /\ Displayed(HealthShown(check_health(resp)))

\* lines 153-158: the Check Credits button
CreditsShown(credits_data) ==
    IF Raises(credits_data) THEN "exception"
    ELSE IF Has("credits", credits_data) THEN "credits" ELSE "credits_error"

Credits ==
    /\ pc = "got_credits"
    /\ Displayed(CreditsShown(get_credits(resp)))

\* lines 161-169: the Check Eligibility button
EligibilityShown(eligibility_data) ==
    IF Raises(eligibility_data) THEN "exception"
    ELSE IF Has("canChat", eligibility_data)
        THEN IF ~Has("cost", eligibility_data) THEN "exception"   \* KeyError
             ELSE IF eligibility_data.d.canChat THEN "eligible" ELSE "not_eligible"
    ELSE "eligibility_error"

Eligibility ==
    /\ pc = "got_eligibility"
    /\ Displayed(EligibilityShown(check_eligibility(resp)))

(***************************************************************************)
(* Clear Chat History, lines 172-181                                       *)
(***************************************************************************)
\* mutant: message_count is not reset
ClearedSession_KeepsCount ==
    [chat_history |-> <<>>, session_id |-> None, total_cost |-> 0,
     message_count |-> message_count]

\* mutant: total_cost is not reset
ClearedSession_KeepsCost ==
    [chat_history |-> <<>>, session_id |-> None, total_cost |-> total_cost,
     message_count |-> 0]

\* mutant: session_id is not reset
ClearedSession_KeepsId ==
    [chat_history |-> <<>>, session_id |-> session_id, total_cost |-> 0,
     message_count |-> 0]

\* lines 174-177
ClearedSession ==
    [chat_history |-> <<>>, session_id |-> None, total_cost |-> 0, message_count |-> 0]

Clear ==
    /\ pc = "got_clear"
    /\ IF clear_session(resp)
       THEN /\ chat_history' = ClearedSession.chat_history
            /\ session_id' = ClearedSession.session_id
            /\ total_cost' = ClearedSession.total_cost
            /\ message_count' = ClearedSession.message_count
            /\ outcome' = "cleared"             \* st.success("Chat history cleared!")
            /\ pc' = "rerun"                    \* st.rerun()
            /\ event' = NoEvent
            /\ sends' = 0
            /\ ok_sends' = 0
            /\ cost_sum' = 0
       ELSE /\ KeepSession
            /\ outcome' = "clear_failed"        \* st.error("Failed to clear session")
            /\ pc' = "chat_input"
            /\ UNCHANGED event
            /\ KeepHistoryVars
    /\ resp' = NoResp
    /\ UNCHANGED <<user_address, req, next_uuid>>
    /\ KeepAccount
    /\ UNCHANGED download

(***************************************************************************)
(* Chat input, lines 211-252                                               *)
(***************************************************************************)
\* no prompt was submitted in this run
ChatIdle ==
    /\ pc = "chat_input"
    /\ event.kind # "chat"
    /\ pc' = "footer"
    /\ UNCHANGED <<user_address, event, req, resp, next_uuid, outcome>>
    /\ KeepAccount
    /\ UNCHANGED download
    /\ KeepSession
    /\ KeepHistoryVars

\* lines 212-213
ChatNoAddress ==
    /\ pc = "chat_input"
    /\ event.kind = "chat"
    /\ user_address = ""
    /\ outcome' = "no_address"
    /\ pc' = "footer"
    /\ UNCHANGED <<user_address, event, req, resp, next_uuid>>
    /\ KeepAccount
    /\ UNCHANGED download
    /\ KeepSession
    /\ KeepHistoryVars

\* mutant: the request goes out before the message is appended and counted
ChatSubmit_SendBeforeAppend ==
    /\ pc = "chat_input"
    /\ event.kind = "chat"
    /\ user_address # ""
    /\ session_id' = EnsureSessionId(session_id, next_uuid)
    /\ next_uuid' = IF session_id' = session_id THEN next_uuid ELSE next_uuid + 1
    /\ req' = [endpoint |-> "chat", userAddress |-> user_address,
               message |-> event.text, sessionId |-> session_id']
    /\ pc' = "wait_chat"
    /\ outcome' = "thinking"
    /\ sends' = sends + 1
    /\ UNCHANGED <<chat_history, message_count>>
    /\ UNCHANGED <<user_address, event, resp, total_cost, ok_sends, cost_sum>>
    /\ action' = action
    /\ issued' = Counted(action, issued, req')
    /\ UNCHANGED download

\* lines 215-232: optimistic append, counter, session id, POST /chat
ChatSubmit ==
    /\ pc = "chat_input"
    /\ event.kind = "chat"
    /\ user_address # ""
    /\ chat_history' = Append(chat_history, UserMessage(event.text))
    /\ message_count' = message_count + 1
    /\ session_id' = EnsureSessionId(session_id, next_uuid)
    /\ next_uuid' = IF session_id' = session_id THEN next_uuid ELSE next_uuid + 1
    /\ req' = [endpoint |-> "chat", userAddress |-> user_address,
               message |-> event.text, sessionId |-> session_id']
    /\ pc' = "wait_chat"
    /\ outcome' = "thinking"
    /\ sends' = sends + 1
    /\ UNCHANGED <<user_address, event, resp, total_cost, ok_sends, cost_sum>>
    /\ action' = action
    /\ issued' = Counted(action, issued, req')
    /\ UNCHANGED download

\* lines 234-252: what the handler does with the result of send_chat_message
ChatResult ==
    /\ pc = "got_chat"
    /\ LET response == send_chat_message(resp) IN
        IF Raises(response)
        THEN \* `"response" in None` raises: the run ends here
             /\ UNCHANGED <<chat_history, total_cost>>
             /\ outcome' = "chat_exception"
             /\ pc' = "idle"
             /\ UNCHANGED <<ok_sends, cost_sum>>
        ELSE IF Has("response", response)
        THEN /\ chat_history' = Append(chat_history, AssistantMessage(response.d.response))
             /\ ok_sends' = ok_sends + 1
             /\ IF CostRaises(response)
                THEN \* float() raises after the append: the run ends here
                     /\ UNCHANGED <<total_cost, cost_sum>>
                     /\ outcome' = "cost_exception"
                     /\ pc' = "idle"
                ELSE /\ total_cost' = AddCost(total_cost, response)
                     /\ cost_sum' = AddCost(cost_sum, response)
                     /\ outcome' = "answered"
                     /\ pc' = "rerun"           \* st.rerun()
        ELSE /\ UNCHANGED <<chat_history, total_cost>>
             /\ outcome' = "chat_error"         \* st.error(...)
             /\ pc' = "footer"
             /\ UNCHANGED <<ok_sends, cost_sum>>
    /\ event' = IF pc' = "footer" THEN event ELSE NoEvent
    /\ resp' = NoResp
    /\ UNCHANGED <<session_id, message_count, user_address, req, next_uuid, sends>>
    /\ IF pc' = "idle" THEN CloseAccount ELSE KeepAccount
    /\ UNCHANGED download

(***************************************************************************)
(* Footer and auto-refresh, lines 254-286                                  *)
(***************************************************************************)
\* msg['role'].title() for the role names that occur
Title(word) ==
    CASE word = "user" -> "User"
      [] word = "assistant" -> "Assistant"
      [] OTHER -> word

\* f"{msg['role'].title()}: {msg['content']}"
ExportLine(msg) == Title(msg.role) \o ": " \o msg.content

\* sep.join(lines)
RECURSIVE Join(_, _)
Join(lines, sep) ==
    IF lines = <<>> THEN ""
    ELSE IF Len(lines) = 1 THEN lines[1]
    ELSE lines[1] \o sep \o Join(Tail(lines), sep)

\* line 261: chat_text
ChatText(history) == Join([i \in 1 .. Len(history) |-> ExportLine(history[i])], "\n\n")

\* lines 259-269
ExportShown ==
    IF event.kind # "export" THEN "none"
    ELSE IF chat_history # <<>> THEN "download" ELSE "nothing_to_export"

\* lines 262-267: the download button is rendered only for a non-empty history
ExportDownload ==
    IF event.kind = "export" /\ chat_history # <<>>
    THEN [offered |-> TRUE, data |-> ChatText(chat_history)]
    ELSE NoDownload

\* lines 258-282: export button, metrics, then GET /history when a session exists
Footer ==
    /\ pc = "footer"
    /\ outcome' = ExportShown
    /\ download' = ExportDownload
    /\ IF session_id # None
       THEN /\ req' = [endpoint |-> "history", sessionId |-> session_id]
            /\ pc' = "wait_history"
       ELSE /\ req' = NoReq
            /\ pc' = "idle"
    /\ event' = NoEvent
    /\ CloseAccount
    /\ KeepSession
    /\ UNCHANGED <<user_address, resp, next_uuid>>
    /\ KeepHistoryVars

\* lines 283-286: what the script does with the result of get_chat_history
Refresh ==
    /\ pc = "got_history"
    /\ chat_history' = Reconcile(chat_history, get_chat_history(resp))
    /\ outcome' = "refreshed"
    /\ pc' = "idle"
    /\ resp' = NoResp
    /\ UNCHANGED <<session_id, total_cost, message_count, user_address, event, req, next_uuid>>
    /\ KeepAccount
    /\ UNCHANGED download
    /\ KeepHistoryVars

Next ==
    \/ UserEvent
    \/ Rerun
    \/ Receive
    \/ HealthTop
    \/ Sidebar
    \/ HealthButton
    \/ Credits
    \/ Eligibility
    \/ Clear
    \/ ChatIdle
    \/ ChatNoAddress
    \/ ChatSubmit
    \/ ChatResult
    \/ Footer
    \/ Refresh

Spec == Init /\ [][Next]_vars

(***************************************************************************)
(* Properties                                                              *)
(***************************************************************************)
UserEntries(h) == Cardinality({i \in DOMAIN h : h[i].role = "user"})
NoResponse(reply) ==
    \/ reply.exc
    \/ reply.body.kind # "dict"
    \/ "response" \notin DOMAIN reply.body.d
Non2xx(reply) == ~reply.exc /\ ~Is2xx(reply.status)
ServerHistory(reply) == reply.body.d.history
HasHistory(reply) ==
    /\ ~reply.exc
    /\ reply.body.kind = "dict"
    /\ "history" \in DOMAIN reply.body.d
SessionReset ==
    session_id' = None /\ chat_history' = <<>> /\ total_cost' = 0 /\ message_count' = 0
SessionKept ==
    /\ session_id' = session_id
    /\ chat_history' = chat_history
    /\ total_cost' = total_cost
    /\ message_count' = message_count

\* C1: when every send since the start (or the last clear) was answered with
\* `response`, an idle client has two messages per counted message and a
\* total cost equal to the sum of the returned costs -- also when the
\* end-of-run refresh has run in between.
C1_SuccessfulSendsBalanced ==
    (pc = "idle" /\ ok_sends = sends)
        => /\ Len(chat_history) = 2 * message_count
           /\ total_cost = cost_sum

C3_SessionIdStable ==
    [][/\ (session_id # None /\ session_id' # session_id)
            => (pc = "got_clear" /\ clear_session(resp) /\ session_id' = None)
       /\ (session_id = None /\ session_id' # None)
            => (pc = "chat_input" /\ session_id' = next_uuid /\ next_uuid' = next_uuid + 1)
       /\ (pc = "chat_input" /\ pc' = "wait_chat") => session_id' # None
       /\ req'.endpoint \in {"chat", "history", "clear"}
            => (req'.sessionId = session_id' /\ session_id' # None)
       /\ next_uuid' >= next_uuid /\ session_id' < next_uuid']_vars

C3_Witness ==
    /\ pc = "wait_chat"
    /\ sends = 2 /\ ok_sends = 0
    /\ req.sessionId = session_id
    /\ session_id = 1 /\ next_uuid = 2

\* C4: total_cost is never negative and never decreases, except that a
\* successful clear sets it to 0.
C4_TotalCostMonotonic ==
    [][/\ total_cost' >= 0
       /\ \/ total_cost' >= total_cost
          \/ (pc = "got_clear" /\ clear_session(resp) /\ total_cost' = 0)]_vars

\* C5: a fetched history that is not longer than the local messages changes
\* nothing.
C5_ReconcileNoOp ==
    [][(/\ pc = "got_history"
        /\ HasHistory(resp)
        /\ Len(ServerHistory(resp)) <= Len(chat_history)) => SessionKept]_vars

C5_Witness ==
    /\ pc = "got_history"
    /\ HasHistory(resp)
    /\ Len(ServerHistory(resp)) = Len(chat_history)
    /\ ServerHistory(resp) # chat_history
    /\ chat_history # <<>>

\* C6: a send that ends in an error keeps the optimistically appended user
\* message as the last message, appends no assistant message and leaves
\* total_cost as it was before the submission.
C6_SendErrorKeepsUserMessage ==
    [][/\ (pc = "chat_input" /\ pc' = "wait_chat")
            => /\ total_cost' = total_cost
               /\ chat_history' = Append(chat_history, UserMessage(event.text))
       /\ pc = "wait_chat" => (total_cost' = total_cost /\ chat_history' = chat_history)
       /\ (pc = "got_chat" /\ NoResponse(resp))
            => /\ chat_history' = chat_history
               /\ chat_history'[Len(chat_history')] = UserMessage(event.text)
               /\ total_cost' = total_cost]_vars

C6_Witness ==
    /\ pc = "footer"
    /\ outcome = "chat_error"
    /\ Len(chat_history) = 3
    /\ chat_history[3] = UserMessage("hello")
    /\ total_cost = 1

\* C7: a chat reply with a non-2xx status appends no assistant message and
\* leaves total_cost alone; a history reply with a non-2xx status never
\* replaces the messages.
C7_Non2xxIsNeverSuccess ==
    [][/\ (pc = "got_chat" /\ Non2xx(resp))
            => (chat_history' = chat_history /\ total_cost' = total_cost)
       /\ (pc = "got_history" /\ Non2xx(resp))
            => chat_history' = chat_history]_vars

\* C8 as stated: while no send has succeeded since the start or the last
\* clear, session_id is absent.
C8_AbsentUntilFirstSuccess == ok_sends = 0 => session_id = None

\* C8 amended: session_id is absent exactly while no chat request has been
\* issued since the start or the last successful clear.
C8_AbsentUntilFirstSubmission == (sends = 0) <=> (session_id = None)

C8_Witness ==
    /\ pc = "footer"
    /\ outcome = "chat_error"
    /\ sends = 1 /\ ok_sends = 0
    /\ session_id # None

\* C9: message_count equals the number of user entries in the messages.
C9_CountMatchesUserEntries == message_count = UserEntries(chat_history)

\* C10: Clear Chat History pressed without a session issues no DELETE,
\* reports nothing and changes nothing.
C10_ClearWithoutSessionNoOp ==
    [][/\ (pc = "sidebar" /\ event.kind = "clear" /\ session_id = None)
            => (req' = NoReq /\ pc' = "chat_input" /\ outcome' = "none" /\ SessionKept)
       /\ req'.endpoint = "clear" => req'.sessionId # None]_vars

C10_Witness ==
    /\ pc = "chat_input"
    /\ event.kind = "clear"
    /\ session_id = None
    /\ outcome = "none"
    /\ req = NoReq

Issues == req'.endpoint # "none" /\ req' # req
ExportResults == {"download", "nothing_to_export"}

\* C11: handling an Export press yields the "nothing to export" warning and
\* no file for an empty history, a file with one "<Role>: <content>" entry
\* per message in order otherwise, and from the export handler to the end of
\* the run no request is issued and the four session fields stay as they are.
C11_ExportIsPureAndLocal ==
    [][/\ (pc = "footer" /\ event.kind = "export")
            => /\ chat_history = <<>>
                    => (outcome' = "nothing_to_export" /\ ~download'.offered)
               /\ chat_history # <<>>
                    => /\ outcome' = "download"
                       /\ download'.offered
                       /\ download'.data = ChatText(chat_history)
               /\ ~Issues
               /\ SessionKept
       /\ (outcome \in ExportResults /\ pc # "idle") => (~Issues /\ SessionKept)]_vars

HealthFailed(reply) ==
    \/ reply.exc
    \/ reply.status # 200
    \/ reply.body.kind = "invalid"

\* C12: check_health never raises and touches no session field; on a
\* transport failure, an unparsable body or a status other than 200 it
\* returns (False, None).
C12_CheckHealthSafe ==
    [][/\ pc \in {"wait_health_top", "wait_health"} => SessionKept
       /\ pc \in {"got_health_top", "got_health"}
            => /\ SessionKept
               /\ outcome' # "exception"
               /\ pc' = IF pc = "got_health_top" THEN "sidebar" ELSE "chat_input"
               /\ HealthFailed(resp)
                    => /\ check_health(resp) = [ok |-> FALSE, data |-> JsonNull]
                       /\ outcome' \in {"disconnected", "not_responding"}]_vars

C12_Witness ==
    /\ pc = "chat_input"
    /\ event.kind = "health"
    /\ outcome = "not_responding"
    /\ session_id # None
    /\ chat_history # <<>>

\* the steps the script takes by itself; Receive is the server's (or the
\* network's) step and UserEvent the user's
ClientStep ==
    \/ Rerun
    \/ HealthTop
    \/ Sidebar
    \/ HealthButton
    \/ Credits
    \/ Eligibility
    \/ Clear
    \/ ChatIdle
    \/ ChatNoAddress
    \/ ChatSubmit
    \/ ChatResult
    \/ Footer
    \/ Refresh

\* C13: an issued call resolves even when the server never answers: while a
\* request is in flight the client has a step of its own (a timeout) that
\* ends the wait with an error result.
C13_CallNeverHangs == pc \in WaitPcs => ENABLED ClientStep

\* C14: a fetched history longer than the local messages replaces them
\* wholesale: afterwards the messages are exactly the server's sequence, and
\* session_id, total_cost and message_count are as before.
C14_ReconcileReplacesWholesale ==
    [][(/\ pc = "got_history"
        /\ HasHistory(resp)
        /\ Len(ServerHistory(resp)) > Len(chat_history))
            => /\ chat_history' = ServerHistory(resp)
               /\ session_id' = session_id
               /\ total_cost' = total_cost
               /\ message_count' = message_count]_vars

C14_Witness ==
    /\ pc = "idle"
    /\ outcome = "refreshed"
    /\ sends = 1 /\ message_count = 1
    /\ session_id # None
    /\ Len(chat_history) = 3
    /\ chat_history[1] = AssistantMessage("hi")

\* C15: when the chat request is issued, the user message is already the
\* last message, message_count is already incremented, and the session holds
\* a present session_id, the one the request carries.
C15_AppendBeforeSend ==
    [][req'.endpoint = "chat"
          => /\ chat_history' # <<>>
             /\ chat_history'[Len(chat_history')] = UserMessage(req'.message)
             /\ session_id' # None
             /\ req'.sessionId = session_id'
             /\ req.endpoint # "chat"
                  => /\ chat_history' = Append(chat_history, UserMessage(req'.message))
                     /\ message_count' = message_count + 1]_vars

C15_Witness ==
    /\ pc = "wait_chat"
    /\ req.endpoint = "chat"
    /\ req.sessionId = session_id
    /\ message_count = 2
    /\ ok_sends = 1
    /\ chat_history = <<UserMessage("hello"), AssistantMessage("hi"), UserMessage("hello")>>

\* C16 as stated: a user action sends at most one request to its endpoint.
C16_AtMostOneRequest == issued <= 1

\* C16 amended: no request is repeated.  A user action sends at most one
\* request to its endpoint -- two GET /health for the Health Check button,
\* whose run also makes the connection-status check of every run -- and each
\* chat, clear, credits or eligibility request is the first of its action,
\* whether or not the previous reply was a failure; once the handlers are
\* done the run sends nothing but its single history fetch.
C16_NoAutomaticRetry ==
    [][/\ issued' <= IF action' = "health" THEN 2 ELSE 1
       /\ (Issues /\ req'.endpoint \notin {"health", "history"})
            => /\ req'.endpoint = OwnEndpoint(action')
               /\ issued = 0 /\ issued' = 1
       /\ (Issues /\ req'.endpoint = "history") => pc = "footer"
       /\ pc \in {"footer", "wait_history", "got_history"}
            => req'.endpoint \in {"none", "history"}]_vars

C16_Witness ==
    /\ pc = "footer"
    /\ action = "clear"
    /\ outcome = "clear_failed"
    /\ issued = 1
    /\ req = NoReq

\* C17: the session markers agree: session_id is absent iff message_count
\* is 0 iff there are no messages, and total_cost is 0 while it is absent.
C17_MarkersAgree ==
    /\ (session_id = None) <=> (message_count = 0)
    /\ (message_count = 0) <=> (chat_history = <<>>)
    /\ session_id = None => total_cost = 0

C17_Witness ==
    /\ pc = "idle"
    /\ session_id = None /\ message_count = 0 /\ chat_history = <<>> /\ total_cost = 0
    /\ next_uuid = 2
    /\ user_address # ""

\* C18: the number of messages never decreases, except when a clear that
\* the server acknowledged empties them: sending (successful or not) and
\* reconciling leave at least as many messages as before.
C18_LengthNeverDecreases ==
    [][\/ Len(chat_history') >= Len(chat_history)
       \/ /\ pc = "got_clear"
          /\ clear_session(resp)
          /\ chat_history' = <<>>]_vars

\* a failed send kept the user's entry and a later refresh lengthened the list
C18_Witness ==
    /\ pc = "idle"
    /\ ok_sends = 0 /\ sends = 1
    /\ message_count = 1
    /\ Len(chat_history) > 1

\* C19: a history fetch that fails -- an exception, or a reply that holds
\* no `history` field -- leaves the messages, the session id, the total cost
\* and the message count as they were, and the history request is issued
\* only while a session id is present, for that session id.
C19_FailedRefreshKeepsSession ==
    [][/\ (pc = "got_history" /\ ~HasHistory(resp)) => SessionKept
       /\ (pc' = "wait_history" /\ pc # "wait_history")
            => /\ session_id # None
               /\ req' = [endpoint |-> "history", sessionId |-> session_id]
       /\ (Issues /\ req'.endpoint = "history") => session_id # None]_vars

\* a failed history reply is about to be handled in a session that has
\* messages and a cost
C19_Witness ==
    /\ pc = "got_history"
    /\ ~HasHistory(resp)
    /\ session_id # None
    /\ Len(chat_history) >= 2
    /\ total_cost > 0

AddressEndpoints == {"chat", "credits", "eligibility"}

\* C20: a request that carries the user address (chat, credits,
\* eligibility) is issued only while the address is not empty and carries
\* that address, and a chat submission made while the address is empty
\* issues nothing and changes none of the session id, the messages, the
\* total cost and the message count.
C20_NoRequestWithoutAddress ==
    [][/\ (Issues /\ req'.endpoint \in AddressEndpoints)
            => /\ user_address' # ""
               /\ req'.userAddress = user_address'
       /\ (pc' \in {"wait_chat", "wait_credits", "wait_eligibility"} /\ pc' # pc)
            => /\ user_address' # ""
               /\ req'.endpoint \in AddressEndpoints
               /\ req'.userAddress = user_address'
       /\ (pc = "chat_input" /\ event.kind = "chat" /\ user_address = "")
            => /\ SessionKept
               /\ req' = req
               /\ pc' = "footer"]_vars

\* a submission was turned down for its empty address in a session that
\* has messages
C20_Witness ==
    /\ pc = "footer"
    /\ outcome = "no_address"
    /\ user_address = ""
    /\ session_id # None
    /\ chat_history # <<>>
====
